---- MODULE Spec2Model ----
(***************************************************************************)
(* Metric accumulators of m3ae/gadgets/my_metrics.py (Accuracy, Scalar,    *)
(* VQAScore, ROUGE1Score, ROUGE2Score, BLEUScore, VQARADScore, ROCScore,   *)
(* F1Score) as state machines over their add_state cells and the three     *)
(* watermark attributes of VQARADScore.                                    *)
(*                                                                         *)
(* Numbers.  Counts and sums are integers.  Soft-target masses and the     *)
(* per-pair text scores are multiples of 1/Unit, so the score cells hold   *)
(* integers counted in 1/Unit and a ratio score/total is the exact         *)
(* fraction score/(Unit*total).  torch's float division is modelled with   *)
(* its IEEE outcomes: 0/0 is nan, x/0 is +-inf, nan compares false.        *)
(* Rounding of float32 is not modelled.                                    *)
(***************************************************************************)
EXTENDS Integers, Sequences, FiniteSets, TLC

\* ---------------------------------------------------------------- bounds
Unit == 2
\* samples per batch (Accuracy, VQAScore, text metrics) and per epoch
MaxBatch == 2
MaxTotal == 3
\* samples per epoch of a VQARADScore, whose watermark outlives the epochs
MaxRadTotal == 1
\* steps of a module with an active "cls" task, whose metrics no wrapup resets
MaxClsSteps == 1
\* samples per batch of ROCScore and F1Score, and of every variant where
\* several instances run side by side; batches per epoch there
MaxSmallBatch == 1
MaxBuf == 2
\* worker processes of one distributed epoch
NumWorkers == 2

\* the ignore sentinel of Accuracy.update
IgnoreIndex == -100

\* ---------------------------------------------------------------- values
RECURSIVE GCD(_, _)
GCD(a, b) == IF b = 0 THEN a ELSE GCD(b, a % b)

Abs(x) == IF x < 0 THEN -x ELSE x

\* a finite float: the reduced fraction n/d, d > 0
Num(n, d) ==
    LET g == GCD(Abs(n), Abs(d))
        s == IF d < 0 THEN -1 ELSE 1
    IN [k |-> "num", n |-> (s * n) \div g, d |-> (s * d) \div g]

NaN == [k |-> "nan", n |-> 0, d |-> 0]
Inf(sign) == [k |-> "inf", n |-> sign, d |-> 0]
None == [k |-> "none", n |-> 0, d |-> 0]
Zero == Num(0, 1)
One == Num(1, 1)

\* tensor / tensor on float scalars n and d (no exception on d = 0)
Div(n, d) ==
    IF d # 0 THEN Num(n, d)
    ELSE IF n = 0 THEN NaN
    ELSE IF n > 0 THEN Inf(1) ELSE Inf(-1)

\* a > b on floats: false as soon as one side is nan
Gt(a, b) ==
    IF a.k = "nan" \/ b.k = "nan" THEN FALSE
    ELSE IF a.k = "inf" THEN a.n = 1 /\ ~(b.k = "inf" /\ b.n = 1)
    ELSE IF b.k = "inf" THEN b.n = -1
    ELSE a.n * b.d > b.n * a.d

Geq(a, b) == a = b \/ Gt(a, b)

\* ---------------------------------------------------------------- sequences
RECURSIVE SumSeq(_)
SumSeq(s) == IF s = <<>> THEN 0 ELSE Head(s) + SumSeq(Tail(s))

RECURSIVE Flatten(_)
Flatten(ss) == IF ss = <<>> THEN <<>> ELSE Head(ss) \o Flatten(Tail(ss))

\* s[mask]: the entries of s at the positions where mask is TRUE
RECURSIVE MaskSelect(_, _)
MaskSelect(s, mask) ==
    IF s = <<>> THEN <<>>
    ELSE (IF Head(mask) THEN <<Head(s)>> ELSE <<>>) \o MaskSelect(Tail(s), Tail(mask))

SeqsUpTo(S, n) == UNION {[1..k -> S] : k \in 0..n}

\* index (0-based class id) of the first maximal entry of a row
ArgMax(row) ==
    (CHOOSE i \in 1..Len(row) :
        /\ \A j \in 1..Len(row) : row[j] <= row[i]
        /\ \A j \in 1..(i - 1) : row[j] < row[i]) - 1

\* ---------------------------------------------------------------- state
Kinds == {"Accuracy", "Scalar", "VQAScore", "ROUGE1Score", "ROUGE2Score",
          "BLEUScore", "VQARADScore", "ROCScore", "F1Score"}

SumStates == {"correct", "total", "scalar", "score", "rouge1", "rouge2",
              "close_score", "close_total", "open_score", "open_total"}
CatStates == {"y_trues", "y_scores", "y_preds"}

\* the cells each variant declares with add_state
Owned(kd) ==
    CASE kd = "Accuracy" -> {"correct", "total"}
      [] kd = "Scalar" -> {"scalar", "total"}
      [] kd = "VQAScore" -> {"score", "total"}
      [] kd = "ROUGE1Score" -> {"rouge1", "total"}
      [] kd = "ROUGE2Score" -> {"rouge2", "total"}
      [] kd = "BLEUScore" -> {"score", "total"}
      [] kd = "VQARADScore" -> {"score", "total", "close_score", "close_total",
                                "open_score", "open_total"}
      [] kd = "ROCScore" -> {"y_trues", "y_scores"}
      [] kd = "F1Score" -> {"y_trues", "y_preds"}

\* every cell at its declared default, the watermark at its constructor value
InitState ==
    [correct |-> 0, total |-> 0, scalar |-> 0, score |-> 0, rouge1 |-> 0,
     rouge2 |-> 0, close_score |-> 0, close_total |-> 0, open_score |-> 0,
     open_total |-> 0, y_trues |-> <<>>, y_scores |-> <<>>, y_preds |-> <<>>,
     best_score |-> Zero, best_close_score |-> Zero, best_open_score |-> Zero]

\* the result of a call: the state it leaves, what it returns, what it raises
Result(st, rv, exc) == [st |-> st, ret |-> rv, raised |-> exc]

\* ---------------------------------------------------------------- inputs
\* rows of class scores are given in tenths, [[0.1, 0.9], [0.8, 0.2]] being
\* <<1, 9>>, <<8, 2>>

\* Accuracy: one row of logits and one integer target per sample
\* (a hit on class 1, a hit on class 0, a miss, an ignored sample).  seq is
\* 0 for logits of shape (B, C); seq = n > 0 stands for logits of shape
\* (B, n, C) given with a target of shape (B), each of the sample's n rows
\* being its logits row (a caller's mistake: a hit and an ignored sample).
AccSamples ==
    {[logits |-> <<1, 9>>, target |-> 1, seq |-> 0],
     [logits |-> <<8, 2>>, target |-> 0, seq |-> 0],
     [logits |-> <<8, 2>>, target |-> 1, seq |-> 0],
     [logits |-> <<8, 2>>, target |-> IgnoreIndex, seq |-> 0],
     [logits |-> <<1, 9>>, target |-> 1, seq |-> 1],
     [logits |-> <<8, 2>>, target |-> IgnoreIndex, seq |-> 1]}

\* a tensor has one shape: the samples of a batch agree on seq
AccBatches ==
    {b \in SeqsUpTo(AccSamples, MaxBatch) :
        \A i \in 1..Len(b) : b[i].seq = b[1].seq}

\* the dimension preds has after the batch dimension (0: none)
SeqDim(b) == IF Len(b) = 0 THEN 0 ELSE b[1].seq

\* the shape of x[mask] for x of shape (B) or (B, inner) and mask of shape (B)
Shape(xF, inner) == IF inner = 0 THEN <<Len(xF)>> ELSE <<Len(xF), inner>>

\* Scalar: a raw number or a 0-dim tensor
ScalarInputs == [tensor : BOOLEAN, v : {2, 4, 6}]

\* VQA: one row of logits and one row of soft-target masses (in 1/Unit)
\* (a one-hot target at the arg-max class, partial credit at the arg-max
\* class, a tie of the logits resolved to class 0 where the target has no mass)
VqaSamples ==
    {[logits |-> <<1, 9>>, target |-> <<0, Unit>>],
     [logits |-> <<8, 2>>, target |-> <<1, Unit - 1>>],
     [logits |-> <<5, 5>>, target |-> <<0, Unit>>]}
VqaBatches == SeqsUpTo(VqaSamples, MaxBatch)

\* VQARAD: a VQA batch with types, one type per sample, or types left None
NoTypes == [none |-> TRUE, v |-> <<>>]
Types(v) == [none |-> FALSE, v |-> v]
RadBatches ==
    UNION {{[samples |-> b, types |-> t] :
                t \in {NoTypes} \cup {Types(v) : v \in [1..Len(b) -> {0, 1}]}} :
           b \in SeqsUpTo(VqaSamples, MaxRadTotal)}

\* text metrics: the zipped (prediction, reference) pairs of a batch, each
\* pair standing for the float the external scorer gives it (in 1/Unit)
TextBatches == SeqsUpTo(0..Unit, MaxBatch)

\* ROC / F1: one logit and one binary label per sample, at least one sample
BinSamples == [logit : {0, 1}, target : {0, 1}]
BinBatches == SeqsUpTo(BinSamples, MaxSmallBatch) \ {<<>>}

\* ---------------------------------------------------------------- Accuracy
\* mutant: the empty-after-masking batch is not short-circuited
AccuracyUpdateNoEarlyExit(st, b) ==
    LET preds == [i \in 1..Len(b) |->
                    IF b[i].seq = 0 THEN ArgMax(b[i].logits)
                    ELSE [j \in 1..b[i].seq |-> ArgMax(b[i].logits)]]
        target == [i \in 1..Len(b) |-> b[i].target]
        mask == [i \in 1..Len(b) |-> target[i] # IgnoreIndex]
        predsF == MaskSelect(preds, mask)
        targetF == MaskSelect(target, mask)
        hits == [i \in 1..Len(targetF) |-> IF predsF[i] = targetF[i] THEN 1 ELSE 0]
    IN IF Shape(predsF, SeqDim(b)) # Shape(targetF, 0)
       THEN Result(st, None, "AssertionError")
       ELSE Result([st EXCEPT !.correct = @ + SumSeq(hits),
                              !.total = @ + Len(targetF)], None, "none")

\* mutant: correct is assigned the batch's matches instead of accumulating
AccuracyUpdateAssign(st, b) ==
    LET preds == [i \in 1..Len(b) |->
                    IF b[i].seq = 0 THEN ArgMax(b[i].logits)
                    ELSE [j \in 1..b[i].seq |-> ArgMax(b[i].logits)]]
        target == [i \in 1..Len(b) |-> b[i].target]
        mask == [i \in 1..Len(b) |-> target[i] # IgnoreIndex]
        predsF == MaskSelect(preds, mask)
        targetF == MaskSelect(target, mask)
        hits == [i \in 1..Len(targetF) |-> IF predsF[i] = targetF[i] THEN 1 ELSE 0]
    IN IF Len(targetF) = 0 THEN Result(st, One, "none")
       ELSE IF Shape(predsF, SeqDim(b)) # Shape(targetF, 0)
            THEN Result(st, None, "AssertionError")
       ELSE Result([st EXCEPT !.correct = SumSeq(hits),
                              !.total = @ + Len(targetF)], None, "none")

\* mutant: the ignored samples are counted in total
AccuracyUpdateCountsIgnored(st, b) ==
    LET preds == [i \in 1..Len(b) |->
                    IF b[i].seq = 0 THEN ArgMax(b[i].logits)
                    ELSE [j \in 1..b[i].seq |-> ArgMax(b[i].logits)]]
        target == [i \in 1..Len(b) |-> b[i].target]
        mask == [i \in 1..Len(b) |-> target[i] # IgnoreIndex]
        predsF == MaskSelect(preds, mask)
        targetF == MaskSelect(target, mask)
        hits == [i \in 1..Len(targetF) |-> IF predsF[i] = targetF[i] THEN 1 ELSE 0]
    IN IF Len(targetF) = 0 THEN Result(st, One, "none")
       ELSE IF Shape(predsF, SeqDim(b)) # Shape(targetF, 0)
            THEN Result(st, None, "AssertionError")
       ELSE Result([st EXCEPT !.correct = @ + SumSeq(hits),
                              !.total = @ + Len(target)], None, "none")

\* mutant: total is advanced before the shapes are compared
AccuracyUpdateLateAssert(st, b) ==
    LET preds == [i \in 1..Len(b) |->
                    IF b[i].seq = 0 THEN ArgMax(b[i].logits)
                    ELSE [j \in 1..b[i].seq |-> ArgMax(b[i].logits)]]
        target == [i \in 1..Len(b) |-> b[i].target]
        mask == [i \in 1..Len(b) |-> target[i] # IgnoreIndex]
        predsF == MaskSelect(preds, mask)
        targetF == MaskSelect(target, mask)
        hits == [i \in 1..Len(targetF) |-> IF predsF[i] = targetF[i] THEN 1 ELSE 0]
    IN IF Len(targetF) = 0 THEN Result(st, One, "none")
       ELSE IF Shape(predsF, SeqDim(b)) # Shape(targetF, 0)
            THEN Result([st EXCEPT !.total = @ + Len(targetF)], None, "AssertionError")
       ELSE Result([st EXCEPT !.correct = @ + SumSeq(hits),
                              !.total = @ + Len(targetF)], None, "none")

AccuracyUpdate(st, b) ==
    LET preds == [i \in 1..Len(b) |->
                    IF b[i].seq = 0 THEN ArgMax(b[i].logits)
                    ELSE [j \in 1..b[i].seq |-> ArgMax(b[i].logits)]]
        target == [i \in 1..Len(b) |-> b[i].target]
        mask == [i \in 1..Len(b) |-> target[i] # IgnoreIndex]
        predsF == MaskSelect(preds, mask)
        targetF == MaskSelect(target, mask)
        hits == [i \in 1..Len(targetF) |-> IF predsF[i] = targetF[i] THEN 1 ELSE 0]
    IN IF Len(targetF) = 0 THEN Result(st, One, "none")
       ELSE IF Shape(predsF, SeqDim(b)) # Shape(targetF, 0)
            THEN Result(st, None, "AssertionError")
       ELSE Result([st EXCEPT !.correct = @ + SumSeq(hits),
                              !.total = @ + Len(targetF)], None, "none")

AccuracyCompute(st) == Result(st, Div(st.correct, st.total), "none")

\* ---------------------------------------------------------------- Scalar
\* torch.tensor(scalar).float() of a raw number: the values modelled are
\* small integers, which float32 represents exactly
ToFloat(v) == v

\* mutant: only a tensor input is counted in total
ScalarUpdateCountsTensors(st, x) ==
    LET scalar == IF x.tensor THEN x.v ELSE ToFloat(x.v)
    IN Result([st EXCEPT !.scalar = @ + scalar,
                         !.total = @ + (IF x.tensor THEN 1 ELSE 0)], None, "none")

ScalarUpdate(st, x) ==
    LET scalar == IF x.tensor THEN x.v ELSE ToFloat(x.v)
    IN Result([st EXCEPT !.scalar = @ + scalar, !.total = @ + 1], None, "none")

ScalarCompute(st) == Result(st, Div(st.scalar, st.total), "none")

\* ---------------------------------------------------------------- VQAScore
\* zeros_like(target) row with a 1 scattered at class c
OneHot(c, row) == [j \in 1..Len(row) |-> IF j = c + 1 THEN 1 ELSE 0]

\* mutant: the whole target row is summed, not its arg-max entry
SampleScoreWholeRow(s) == SumSeq(s.target)

\* (one_hots * target).sum() of one sample
SampleScore(s) ==
    LET hot == OneHot(ArgMax(s.logits), s.target)
    IN SumSeq([j \in 1..Len(s.target) |-> hot[j] * s.target[j]])

\* mutant: total is assigned the batch size instead of accumulating
VQAScoreUpdateAssignTotal(st, b) ==
    LET scores == [i \in 1..Len(b) |-> SampleScore(b[i])]
    IN Result([st EXCEPT !.score = @ + SumSeq(scores), !.total = Len(b)],
              None, "none")

VQAScoreUpdate(st, b) ==
    LET scores == [i \in 1..Len(b) |-> SampleScore(b[i])]
    IN Result([st EXCEPT !.score = @ + SumSeq(scores), !.total = @ + Len(b)],
              None, "none")

\* mutant: compute consumes the accumulators it reads
VQAScoreComputeAndClear(st) ==
    Result([st EXCEPT !.score = 0, !.total = 0], Div(st.score, Unit * st.total), "none")

VQAScoreCompute(st) == Result(st, Div(st.score, Unit * st.total), "none")

\* ---------------------------------------------------------------- text metrics
ROUGE1ScoreUpdate(st, b) ==
    Result([st EXCEPT !.rouge1 = @ + SumSeq(b), !.total = @ + Len(b)], None, "none")

ROUGE1ScoreCompute(st) ==
    Result(st, IF st.total > 0 THEN Div(st.rouge1, Unit * st.total) ELSE Zero, "none")

ROUGE2ScoreUpdate(st, b) ==
    Result([st EXCEPT !.rouge2 = @ + SumSeq(b), !.total = @ + Len(b)], None, "none")

ROUGE2ScoreCompute(st) ==
    Result(st, IF st.total > 0 THEN Div(st.rouge2, Unit * st.total) ELSE Zero, "none")

BLEUScoreUpdate(st, b) ==
    Result([st EXCEPT !.score = @ + SumSeq(b), !.total = @ + Len(b)], None, "none")

BLEUScoreCompute(st) ==
    Result(st, IF st.total > 0 THEN Div(st.score, Unit * st.total) ELSE Zero, "none")

\* ---------------------------------------------------------------- VQARADScore
\* super().update first; with types None the comparison types == 0 is the
\* Python bool False, whose .float() raises after score and total moved
VQARADScoreUpdate(st, x) ==
    LET s1 == VQAScoreUpdate(st, x.samples).st
        types == x.types.v
        close_scores == [i \in 1..Len(types) |-> (IF types[i] = 0 THEN 1 ELSE 0) * s1.score]
        open_scores == [i \in 1..Len(types) |-> (IF types[i] = 1 THEN 1 ELSE 0) * s1.score]
    IN IF x.types.none THEN Result(s1, None, "AttributeError")
       ELSE Result([s1 EXCEPT !.close_score = @ + SumSeq(close_scores),
                              !.close_total = @ + Len(close_scores),
                              !.open_score = @ + SumSeq(open_scores),
                              !.open_total = @ + Len(open_scores)], None, "none")

\* mutant: the watermark is overwritten without the comparison
VQARADScoreGetBestScoreAlways(st) ==
    LET s1 == [st EXCEPT !.best_score = VQAScoreCompute(st).ret]
    IN Result(s1, s1.best_score, "none")

\* mutant: the open snapshot is not taken with the other two
VQARADScoreGetBestScoreStaleOpen(st) ==
    LET s1 == IF Gt(Div(st.score, Unit * st.total), st.best_score)
              THEN [st EXCEPT
                      !.best_score = VQAScoreCompute(st).ret,
                      !.best_close_score =
                          IF st.close_total # 0
                          THEN Div(st.close_score, Unit * st.close_total) ELSE Zero]
              ELSE st
    IN Result(s1, s1.best_score, "none")

VQARADScoreGetBestScore(st) ==
    LET s1 == IF Gt(Div(st.score, Unit * st.total), st.best_score)
              THEN [st EXCEPT
                      !.best_score = VQAScoreCompute(st).ret,
                      !.best_close_score =
                          IF st.close_total # 0
                          THEN Div(st.close_score, Unit * st.close_total) ELSE Zero,
                      !.best_open_score =
                          IF st.open_total # 0
                          THEN Div(st.open_score, Unit * st.open_total) ELSE Zero]
              ELSE st
    IN Result(s1, s1.best_score, "none")

VQARADScoreGetBestCloseScore(st) == Result(st, st.best_close_score, "none")

VQARADScoreGetBestOpenScore(st) == Result(st, st.best_open_score, "none")

\* ---------------------------------------------------------------- ROCScore, F1Score
\* torch.sigmoid on the modelled logits, in thousandths
Sigmoid(x) == CASE x = 0 -> 500 [] x = 1 -> 731

\* how many entries of s equal v
Count(s, v) == Cardinality({i \in 1..Len(s) : s[i] = v})

\* sklearn.metrics.roc_auc_score on binary labels: ValueError unless both
\* classes are present, else the share of (positive, negative) pairs ranked
\* right, ties counting one half
RocAuc(labels, scores) ==
    LET pos == {i \in 1..Len(labels) : labels[i] = 1}
        neg == {i \in 1..Len(labels) : labels[i] = 0}
        gt == Cardinality({pr \in pos \X neg : scores[pr[1]] > scores[pr[2]]})
        eq == Cardinality({pr \in pos \X neg : scores[pr[1]] = scores[pr[2]]})
    IN IF pos = {} \/ neg = {} THEN [err |-> TRUE, v |-> None]
       ELSE [err |-> FALSE,
             v |-> Num(2 * gt + eq, 2 * Cardinality(pos) * Cardinality(neg))]

\* sklearn.metrics.f1_score (binary, pos_label 1): 2TP / (2TP + FP + FN),
\* 0.0 with a warning when the denominator is 0; no ValueError on one class
F1(labels, preds) ==
    LET tp == Cardinality({i \in 1..Len(labels) : labels[i] = 1 /\ preds[i] = 1})
        fp == Cardinality({i \in 1..Len(labels) : labels[i] = 0 /\ preds[i] = 1})
        fn == Cardinality({i \in 1..Len(labels) : labels[i] = 1 /\ preds[i] = 0})
    IN [err |-> FALSE,
        v |-> IF 2 * tp + fp + fn = 0 THEN Zero ELSE Num(2 * tp, 2 * tp + fp + fn)]

ROCScoreUpdate(st, b) ==
    LET target == [i \in 1..Len(b) |-> b[i].target]
        scores == [i \in 1..Len(b) |-> Sigmoid(b[i].logit)]
    IN Result([st EXCEPT !.y_trues = Append(@, target),
                         !.y_scores = Append(@, scores)], None, "none")

\* mutant: the ValueError of the statistic is not caught
ROCScoreComputeNoCatch(st) ==
    LET r == RocAuc(Flatten(st.y_trues), Flatten(st.y_scores))
    IN IF st.y_trues = <<>> \/ r.err THEN Result(st, None, "ValueError")
       ELSE Result(st, r.v, "none")

\* np.concatenate of an empty list is a ValueError too; the handler then
\* reads self.y_trues[0], an IndexError on the empty list
ROCScoreCompute(st) ==
    LET r == RocAuc(Flatten(st.y_trues), Flatten(st.y_scores))
    IN IF st.y_trues = <<>> THEN Result(st, None, "IndexError")
       ELSE IF r.err THEN Result(st, Zero, "none")
       ELSE Result(st, r.v, "none")

F1ScoreUpdate(st, b) ==
    LET target == [i \in 1..Len(b) |-> b[i].target]
        y_pred == [i \in 1..Len(b) |-> IF Sigmoid(b[i].logit) > 500 THEN 1 ELSE 0]
    IN Result([st EXCEPT !.y_trues = Append(@, target),
                         !.y_preds = Append(@, y_pred)], None, "none")

F1ScoreCompute(st) ==
    LET r == F1(Flatten(st.y_trues), Flatten(st.y_preds))
    IN IF st.y_trues = <<>> THEN Result(st, None, "IndexError")
       ELSE IF r.err THEN Result(st, Zero, "none")
       ELSE Result(st, r.v, "none")

\* ---------------------------------------------------------------- the Metric surface
\* mutant: reset rebuilds the whole object, watermark included
MetricResetAll(kd, st) == InitState

\* mutant: reset restores the cells of the base class only
MetricResetBase(kd, st) ==
    [f \in DOMAIN st |->
        IF f \in Owned(kd) \cap {"correct", "total", "scalar", "score", "rouge1", "rouge2"}
        THEN InitState[f] ELSE st[f]]

\* Metric.reset: every cell declared with add_state back to its default;
\* plain attributes (the watermark) are not cells
MetricReset(kd, st) ==
    [f \in DOMAIN st |-> IF f \in Owned(kd) THEN InitState[f] ELSE st[f]]

Batches(kd) ==
    CASE kd = "Accuracy" -> AccBatches
      [] kd = "Scalar" -> ScalarInputs
      [] kd = "VQAScore" -> VqaBatches
      [] kd \in {"ROUGE1Score", "ROUGE2Score", "BLEUScore"} -> TextBatches
      [] kd = "VQARADScore" -> RadBatches
      [] kd \in {"ROCScore", "F1Score"} -> BinBatches

MetricUpdate(kd, st, b) ==
    CASE kd = "Accuracy" -> AccuracyUpdate(st, b)
      [] kd = "Scalar" -> ScalarUpdate(st, b)
      [] kd = "VQAScore" -> VQAScoreUpdate(st, b)
      [] kd = "ROUGE1Score" -> ROUGE1ScoreUpdate(st, b)
      [] kd = "ROUGE2Score" -> ROUGE2ScoreUpdate(st, b)
      [] kd = "BLEUScore" -> BLEUScoreUpdate(st, b)
      [] kd = "VQARADScore" -> VQARADScoreUpdate(st, b)
      [] kd = "ROCScore" -> ROCScoreUpdate(st, b)
      [] kd = "F1Score" -> F1ScoreUpdate(st, b)

MetricCompute(kd, st) ==
    CASE kd = "Accuracy" -> AccuracyCompute(st)
      [] kd = "Scalar" -> ScalarCompute(st)
      [] kd \in {"VQAScore", "VQARADScore"} -> VQAScoreCompute(st)
      [] kd = "ROUGE1Score" -> ROUGE1ScoreCompute(st)
      [] kd = "ROUGE2Score" -> ROUGE2ScoreCompute(st)
      [] kd = "BLEUScore" -> BLEUScoreCompute(st)
      [] kd = "ROCScore" -> ROCScoreCompute(st)
      [] kd = "F1Score" -> F1ScoreCompute(st)

BatchLen(kd, b) ==
    CASE kd = "Scalar" -> 1
      [] kd = "VQARADScore" -> Len(b.samples)
      [] OTHER -> Len(b)

\* the batches a state has room for (the model's cap on one epoch)
FitsEpoch(kd, st, b) ==
    CASE kd \in {"ROCScore", "F1Score"} -> Len(st.y_trues) < MaxBuf
      [] OTHER -> st.total + BatchLen(kd, b) <= MaxTotal

Fits(kd, st, b) ==
    IF kd = "VQARADScore" THEN st.total + BatchLen(kd, b) <= MaxRadTotal
    ELSE FitsEpoch(kd, st, b)

\* ---------------------------------------------------------------- one instance
\* kind: the variant; m: the instance; op, ret, raised: the last call on m,
\* what it returned and what it raised.  peer, pending, workers belong to the
\* side-by-side specifications below and rest here.  seen is the record of
\* the samples given to m since its last reset, kept by the epoch
\* specification; loss_names, phase and pl are the module whose epochs
\* epoch_wrapup ends, logged what its last epoch_wrapup gave to log.
VARIABLES kind, m, op, ret, raised, peer, pending, workers, seen,
          loss_names, phase, pl, logged

vars == <<kind, m, op, ret, raised, peer, pending, workers, seen,
          loss_names, phase, pl, logged>>

\* the variables a specification does not use
NoSeen == seen = <<>>
NoModule == loss_names = <<>> /\ phase = "none" /\ pl = <<>> /\ logged = <<>>

Init ==
    /\ kind \in Kinds
    /\ m = InitState
    /\ op = "new"
    /\ ret = None
    /\ raised = "none"
    /\ peer = InitState
    /\ pending = <<>>
    /\ workers = <<>>
    /\ NoSeen
    /\ NoModule

Finish(name, r) ==
    /\ m' = r.st
    /\ op' = name
    /\ ret' = r.ret
    /\ raised' = r.raised
    /\ UNCHANGED <<kind, peer, pending, workers, seen, loss_names, phase, pl, logged>>

update ==
    \E b \in Batches(kind) :
        /\ Fits(kind, m, b)
        /\ Finish("update", MetricUpdate(kind, m, b))

compute ==
    /\ kind \in Kinds
    /\ Finish("compute", MetricCompute(kind, m))

reset ==
    /\ kind \in Kinds
    /\ Finish("reset", Result(MetricReset(kind, m), None, "none"))

get_best_score ==
    /\ kind = "VQARADScore"
    /\ Finish("get_best_score", VQARADScoreGetBestScore(m))

get_best_close_score ==
    /\ kind = "VQARADScore"
    /\ Finish("get_best_close_score", VQARADScoreGetBestCloseScore(m))

get_best_open_score ==
    /\ kind = "VQARADScore"
    /\ Finish("get_best_open_score", VQARADScoreGetBestOpenScore(m))

Next ==
    \/ update
    \/ compute
    \/ reset
    \/ get_best_score
    \/ get_best_close_score
    \/ get_best_open_score

Spec == Init /\ [][Next]_vars

\* ---------------------------------------------------------------- two orders
\* One epoch's update calls reach m in the order they are made and reach
\* peer, an instance of the same variant, in any other order: pending holds
\* the batches m has had and peer has not.
PermKinds == {"Accuracy", "Scalar", "ROCScore", "F1Score"}

SmallBatches(kd) == {b \in Batches(kd) : BatchLen(kd, b) <= MaxSmallBatch}

Without(s, i) == SubSeq(s, 1, i - 1) \o SubSeq(s, i + 1, Len(s))

InitPerm ==
    /\ kind \in PermKinds
    /\ m = InitState
    /\ peer = InitState
    /\ pending = <<>>
    /\ op = "new"
    /\ ret = None
    /\ raised = "none"
    /\ workers = <<>>
    /\ NoSeen
    /\ NoModule

PermFeed ==
    \E b \in SmallBatches(kind) :
        /\ FitsEpoch(kind, m, b)
        /\ Len(pending) < MaxBuf
        /\ m' = MetricUpdate(kind, m, b).st
        /\ pending' = Append(pending, b)
        /\ UNCHANGED <<kind, op, ret, raised, peer, workers, seen, loss_names, phase, pl, logged>>

PermDrain ==
    \E i \in 1..Len(pending) :
        /\ peer' = MetricUpdate(kind, peer, pending[i]).st
        /\ pending' = Without(pending, i)
        /\ UNCHANGED <<kind, op, ret, raised, m, workers, seen, loss_names, phase, pl, logged>>

PermReset ==
    /\ pending = <<>>
    /\ m # InitState
    /\ m' = MetricReset(kind, m)
    /\ peer' = MetricReset(kind, peer)
    /\ UNCHANGED <<kind, op, ret, raised, pending, workers, seen, loss_names, phase, pl, logged>>

NextPerm ==
    \/ PermFeed
    \/ PermDrain
    \/ PermReset

SpecPerm == InitPerm /\ [][NextPerm]_vars

\* ---------------------------------------------------------------- workers
\* One epoch's batches are split among the workers while m receives every
\* one of them; at the barrier the workers' cells are merged by their
\* declared dist_reduce_fx.  The workers being interchangeable, a batch goes
\* to a worker only when every worker before it has state of its own; every
\* merge order is examined.
Workers == 1..NumWorkers

\* dist_reduce_fx="sum"
MergeSum(a, b) == a + b

\* dist_reduce_fx="cat"
MergeCat(a, b) == a \o b

MergeStates(kd, a, b) ==
    [f \in DOMAIN a |->
        IF f \notin Owned(kd) THEN a[f]
        ELSE IF f \in SumStates THEN MergeSum(a[f], b[f])
        ELSE MergeCat(a[f], b[f])]

\* the workers' states merged in the order a sequence of workers gives
RECURSIVE MergeAll(_, _, _)
MergeAll(kd, ws, order) ==
    IF Len(order) = 1 THEN ws[order[1]]
    ELSE MergeStates(kd, MergeAll(kd, ws, SubSeq(order, 1, Len(order) - 1)),
                     ws[order[Len(order)]])

MergeOrders == {o \in [Workers -> Workers] : \A i, j \in Workers : o[i] = o[j] => i = j}

InitDist ==
    /\ kind \in Kinds
    /\ m = InitState
    /\ workers = [w \in Workers |-> InitState]
    /\ peer = InitState
    /\ pending = <<>>
    /\ op = "new"
    /\ ret = None
    /\ raised = "none"
    /\ NoSeen
    /\ NoModule

DistFeed ==
    \E b \in SmallBatches(kind), w \in Workers :
        /\ FitsEpoch(kind, m, b)
        /\ \A v \in 1..(w - 1) : workers[v] # InitState
        /\ m' = MetricUpdate(kind, m, b).st
        /\ workers' = [workers EXCEPT ![w] = MetricUpdate(kind, @, b).st]
        /\ UNCHANGED <<kind, op, ret, raised, peer, pending, seen, loss_names, phase, pl, logged>>

DistReset ==
    /\ m # InitState
    /\ m' = MetricReset(kind, m)
    /\ workers' = [w \in Workers |-> MetricReset(kind, workers[w])]
    /\ UNCHANGED <<kind, op, ret, raised, peer, pending, seen, loss_names, phase, pl, logged>>

NextDist ==
    \/ DistFeed
    \/ DistReset

SpecDist == InitDist /\ [][NextDist]_vars

\* ---------------------------------------------------------------- properties
Best(st) == <<st.best_score, st.best_close_score, st.best_open_score>>

RatioKinds == {"Accuracy", "Scalar", "VQAScore", "VQARADScore", "ROUGE1Score",
               "ROUGE2Score", "BLEUScore"}

IsNumeric(v) == v.k \in {"num", "nan", "inf"}

\* C1: best_score never decreases, whatever is called; get_best_score
\* returns the stored watermark, and when the current score/total does not
\* exceed it (also with total 0) the call returns the old value and changes
\* nothing.
C1_BestScoreNonDecreasing ==
    [][/\ Geq(m'.best_score, m.best_score)
       /\ op' = "get_best_score" =>
            /\ raised' = "none"
            /\ ret' = m'.best_score
            /\ ~Gt(Div(m.score, Unit * m.total), m.best_score) =>
                 (ret' = m.best_score /\ m' = m)]_vars

\* get_best_score called on a zero-total state after an earlier epoch raised
\* the watermark
C1_Witness ==
    /\ kind = "VQARADScore"
    /\ op = "get_best_score"
    /\ m.total = 0
    /\ Gt(m.best_score, Zero)
    /\ ret = m.best_score

\* C2: the watermark triple starts at (0, 0, 0) and changes only in a
\* get_best_score call whose score/total exceeds best_score, and then all
\* three fields become the overall, close and open averages of the state
\* at that call (close and open 0 when their total is 0); while best_score
\* is 0 the other two are 0; the two readers return their field and change
\* nothing.
C2_SnapshotAtRaise ==
    /\ Best(m) = <<Zero, Zero, Zero>>
    /\ [](m.best_score = Zero => Best(m) = <<Zero, Zero, Zero>>)
    /\ [][/\ Best(m') # Best(m) =>
              /\ op' = "get_best_score"
              /\ Gt(Div(m.score, Unit * m.total), m.best_score)
              /\ m'.best_score = Div(m.score, Unit * m.total)
              /\ m'.best_close_score =
                    (IF m.close_total = 0 THEN Zero
                     ELSE Div(m.close_score, Unit * m.close_total))
              /\ m'.best_open_score =
                    (IF m.open_total = 0 THEN Zero
                     ELSE Div(m.open_score, Unit * m.open_total))
          /\ op' = "get_best_close_score" => (m' = m /\ ret' = m.best_close_score)
          /\ op' = "get_best_open_score" => (m' = m /\ ret' = m.best_open_score)]_vars

\* a reader called after a reset, on a snapshot whose three fields differ
C2_Witness ==
    /\ op = "get_best_open_score"
    /\ m.total = 0
    /\ Gt(m.best_score, Zero)
    /\ m.best_open_score # m.best_close_score
    /\ ret = m.best_open_score

\* C3: reset leaves best_score, best_close_score and best_open_score as
\* they were.
C3_ResetKeepsWatermark ==
    [][op' = "reset" => Best(m') = Best(m)]_vars

\* reset of an instance whose watermark was raised in the epoch it ends
C3_Witness ==
    /\ op = "reset"
    /\ Gt(m.best_score, Zero)
    /\ Gt(m.best_open_score, Zero)

\* C4: after reset every cell the variant owns is at its default: 0 for a
\* SUM cell, the empty sequence for a CONCAT cell.
C4_ResetRestoresDefaults ==
    op = "reset" =>
        \A f \in Owned(kind) :
            /\ f \in SumStates => m[f] = 0
            /\ f \in CatStates => m[f] = <<>>

\* reset of a VQARADScore after an epoch that was updated and scored
C4_Witness ==
    /\ kind = "VQARADScore"
    /\ op = "reset"
    /\ Gt(m.best_close_score, Zero)
    /\ m.total = 0 /\ m.score = 0 /\ m.close_score = 0 /\ m.close_total = 0

\* C5: in every reachable state of an Accuracy, a batch whose targets are
\* all -100 (the empty batch too) leaves the state as it is and returns the
\* early-exit signal 1; any other batch returns None (or, its shapes being
\* wrong, returns nothing at all).
C5_AccuracyEarlyExit ==
    kind = "Accuracy" =>
        \A b \in AccBatches :
            LET r == AccuracyUpdate(m, b)
            IN IF \A i \in 1..Len(b) : b[i].target = IgnoreIndex
               THEN r.st = m /\ r.ret = One /\ r.raised = "none"
               ELSE r.ret = None

\* an early exit taken on an Accuracy that already holds counts
C5_Witness ==
    /\ kind = "Accuracy"
    /\ op = "update"
    /\ ret = One
    /\ m.total > 0

\* C6 (as claimed): compute on a zero-total state of a ratio metric
\* returns 0 and does not raise.
C6_ZeroTotalComputesZero ==
    (op = "compute" /\ kind \in RatioKinds /\ m.total = 0) =>
        (ret = Zero /\ raised = "none")

\* C7 (as claimed): compute returns a number and never raises, in every
\* reachable state of every variant.
C7_ComputeNeverRaises ==
    op = "compute" => (raised = "none" /\ IsNumeric(ret))

SingleClass(st) ==
    /\ st.y_trues # <<>>
    /\ Cardinality({Flatten(st.y_trues)[i] : i \in 1..Len(Flatten(st.y_trues))}) = 1

SampleBag(kd, st) ==
    LET labels == Flatten(st.y_trues)
        other == Flatten(IF kd = "ROCScore" THEN st.y_scores ELSE st.y_preds)
        pairs == [i \in 1..Len(labels) |-> <<labels[i], other[i]>>]
    IN [v \in {pairs[i] : i \in 1..Len(pairs)} |->
            Cardinality({i \in 1..Len(pairs) : pairs[i] = v})]

\* C9: once peer has had the same update calls as m, in whatever order,
\* compute gives the same on both; the SUM variants (Accuracy, Scalar) are
\* then in the same state, the CONCAT variants (ROCScore, F1Score) hold the
\* same multiset of samples.
C9_OrderIndependent ==
    pending = <<>> =>
        /\ MetricCompute(kind, m).ret = MetricCompute(kind, peer).ret
        /\ MetricCompute(kind, m).raised = MetricCompute(kind, peer).raised
        /\ kind \in {"Accuracy", "Scalar"} => m = peer
        /\ kind \in {"ROCScore", "F1Score"} => SampleBag(kind, m) = SampleBag(kind, peer)

\* a ROCScore whose two batches reached peer in the other order, with both
\* classes in the pool
C9_Witness ==
    /\ kind = "ROCScore"
    /\ pending = <<>>
    /\ Len(m.y_trues) = 2
    /\ m.y_scores # peer.y_scores
    /\ m.y_trues # peer.y_trues
    /\ MetricCompute(kind, peer).ret # Zero

\* C10: however the batches were split among the workers and in whatever
\* order the workers are merged, compute on the merged state returns (or
\* raises) what compute returns on the instance that received every batch.
C10_MergedComputeAgrees ==
    workers # <<>> =>
        \A o \in MergeOrders :
            LET g == MergeAll(kind, workers, o)
            IN /\ MetricCompute(kind, g).ret = MetricCompute(kind, m).ret
               /\ MetricCompute(kind, g).raised = MetricCompute(kind, m).raised

\* a VQARADScore epoch split over two workers, both with samples, whose
\* merged score is not 0
C10_Witness ==
    /\ kind = "VQARADScore"
    /\ workers # <<>>
    /\ workers[1].total > 0
    /\ workers[2].total > 0
    /\ workers[1].score > 0
    /\ m.total = workers[1].total + workers[2].total
    /\ MetricCompute(kind, m).ret # Zero

\* C11: compute leaves every cell and the watermark as they were, so a
\* compute that follows a compute returns (or raises) the same.
C11_ComputeChangesNothing ==
    [][op' = "compute" =>
          /\ m' = m
          /\ op = "compute" => (ret' = ret /\ raised' = raised)]_vars

\* compute on a VQARADScore holding an epoch's sample below the watermark
C11_Witness ==
    /\ kind = "VQARADScore"
    /\ op = "compute"
    /\ m.total > 0
    /\ Gt(m.best_score, ret)
    /\ ret = Div(m.score, Unit * m.total)


\* ---------------------------------------------------------------- one epoch
\* One instance fed batch after batch, computed and reset, with seen holding
\* the samples of every update call since the last reset, failed calls
\* included.  The watermark getters are left to Spec.

\* what an update call adds to seen: the samples of its batch, each Accuracy
\* sample with whether the call went through (exc is what the call raised),
\* each VQARAD sample with its type (typed is FALSE for a call that left
\* types None)
Logged(kd, b, exc) ==
    CASE kd = "Scalar" -> <<b>>
      [] kd = "Accuracy" ->
            [i \in 1..Len(b) |->
                [logits |-> b[i].logits, target |-> b[i].target,
                 seq |-> b[i].seq, ok |-> exc = "none"]]
      [] kd = "VQARADScore" ->
            [i \in 1..Len(b.samples) |->
                [logits |-> b.samples[i].logits, target |-> b.samples[i].target,
                 typed |-> ~b.types.none,
                 type |-> IF b.types.none THEN 0 ELSE b.types.v[i]]]
      [] OTHER -> b

InitEpoch ==
    /\ kind \in Kinds
    /\ m = InitState
    /\ op = "new"
    /\ ret = None
    /\ raised = "none"
    /\ peer = InitState
    /\ pending = <<>>
    /\ workers = <<>>
    /\ NoSeen
    /\ NoModule

EpochFinish(name, r, log) ==
    /\ m' = r.st
    /\ op' = name
    /\ ret' = r.ret
    /\ raised' = r.raised
    /\ seen' = log
    /\ UNCHANGED <<kind, peer, pending, workers, loss_names, phase, pl, logged>>

EpochUpdate ==
    \E b \in Batches(kind) :
        /\ Len(seen) + BatchLen(kind, b) <= MaxTotal
        /\ EpochFinish("update", MetricUpdate(kind, m, b),
                       seen \o Logged(kind, b, MetricUpdate(kind, m, b).raised))

EpochCompute ==
    /\ kind \in Kinds
    /\ EpochFinish("compute", MetricCompute(kind, m), seen)

EpochReset ==
    /\ kind \in Kinds
    /\ EpochFinish("reset", Result(MetricReset(kind, m), None, "none"), <<>>)

NextEpoch ==
    \/ EpochUpdate
    \/ EpochCompute
    \/ EpochReset

SpecEpoch == InitEpoch /\ [][NextEpoch]_vars


\* ---------------------------------------------------------------- per-sample properties
\* the soft score of the i-th sample seen: the mass its target row puts on
\* the arg-max class of its logits
OwnScore(i) == seen[i].target[ArgMax(seen[i].logits) + 1]

\* the samples seen that came with type t
OfType(t) == {i \in 1..Len(seen) : seen[i].typed /\ seen[i].type = t}

\* the summed own scores of the samples seen that came with type t
TypeScore(t) ==
    SumSeq([i \in 1..Len(seen) |-> IF i \in OfType(t) THEN OwnScore(i) ELSE 0])

\* every update since the last reset passed types
AllTyped == \A i \in 1..Len(seen) : seen[i].typed

\* C12: after updates that all passed types, close_score is the sum of the own
\* soft scores of the type-0 samples and open_score that of the type-1
\* samples (per-batch masking, nothing cumulative).
C12_PerTypeSums ==
    (kind = "VQARADScore" /\ AllTyped) =>
        /\ m.close_score = TypeScore(0)
        /\ m.open_score = TypeScore(1)


\* the samples seen that an Accuracy counts: given in a call that went
\* through, with a target other than -100
Counted == {i \in 1..Len(seen) : seen[i].ok /\ seen[i].target # IgnoreIndex}

\* the counted samples whose logits row has its first maximum at the target
Matches == {i \in Counted : ArgMax(seen[i].logits) = seen[i].target}

\* C13: an Accuracy holds in total the number of non-ignored samples its
\* successful updates brought since the last reset and in correct the number
\* of those whose arg-max class is the target, so 0 <= correct <= total;
\* compute returns correct/total, 1.0 after [[0.1,0.9],[0.8,0.2]] with
\* target [1,-100].
C13_AccuracyCounts ==
    kind = "Accuracy" =>
        /\ m.total = Cardinality(Counted)
        /\ m.correct = Cardinality(Matches)
        /\ 0 <= m.correct /\ m.correct <= m.total
        /\ op = "compute" => ret = Div(m.correct, m.total)
        /\ (op = "compute" /\ seen = <<[logits |-> <<1, 9>>, target |-> 1,
                                        seq |-> 0, ok |-> TRUE],
                                       [logits |-> <<8, 2>>, target |-> IgnoreIndex,
                                        seq |-> 0, ok |-> TRUE]>>) => ret = One

\* compute after the batch [[0.1,0.9],[0.8,0.2]] with target [1,-100]
C13_Witness ==
    /\ kind = "Accuracy"
    /\ op = "compute"
    /\ Len(seen) = 2
    /\ seen[1].logits = <<1, 9>> /\ seen[1].target = 1
    /\ seen[2].logits = <<8, 2>> /\ seen[2].target = IgnoreIndex
    /\ m.total = 1
    /\ ret = One


\* C14: a Scalar holds in scalar the sum of the values given since the last
\* reset and in total their number, each update counting 1 whether the
\* value came raw or as a tensor; after at least one update compute returns
\* their mean (4 after 2, 4, 6).
C14_ScalarMean ==
    kind = "Scalar" =>
        LET N == Len(seen)
            sum == SumSeq([i \in 1..N |-> seen[i].v])
        IN /\ m.total = N
           /\ m.scalar = sum
           /\ (op = "compute" /\ N >= 1) => ret = Num(sum, N)
           /\ (op = "compute" /\ [i \in 1..N |-> seen[i].v] = <<2, 4, 6>>) =>
                  ret = Num(4, 1)

\* compute after 2, 4, 6, given raw and as tensors
C14_Witness ==
    /\ kind = "Scalar"
    /\ op = "compute"
    /\ Len(seen) = 3
    /\ seen[1].v = 2 /\ seen[2].v = 4 /\ seen[3].v = 6
    /\ ~seen[1].tensor /\ seen[2].tensor
    /\ m.total = 3
    /\ ret = Num(4, 1)


\* C15: every sample given to VQAScore.update since the last reset has added
\* to score the mass its target row holds at the arg-max class of its logits
\* and 1 to total: a one-hot target at the arg-max class adds 1 (compute is
\* 1.0 after one such sample alone), a target without mass there adds 0.
C15_SoftScore ==
    kind \in {"VQAScore", "VQARADScore"} =>
        /\ m.score = SumSeq([i \in 1..Len(seen) |-> OwnScore(i)])
        /\ m.total = Len(seen)
        /\ (op = "compute" /\ Len(seen) = 1 /\ seen[1].logits = <<1, 9>>
                /\ seen[1].target = <<0, Unit>>) => ret = One
        /\ (Len(seen) = 1 /\ seen[1].logits = <<5, 5>>
                /\ seen[1].target = <<0, Unit>>) => m.score = 0

\* compute on a VQAScore after the one-hot sample and the sample whose
\* target has no mass at the arg-max class
C15_Witness ==
    /\ kind = "VQAScore"
    /\ op = "compute"
    /\ Len(seen) = 2
    /\ seen[1].logits = <<1, 9>> /\ seen[1].target = <<0, Unit>>
    /\ seen[2].logits = <<5, 5>> /\ seen[2].target = <<0, Unit>>
    /\ m.score = Unit
    /\ ret = Num(1, 2)


\* C16: in every reachable state of an Accuracy, a batch that keeps at least
\* one sample after masking and whose predictions have a dimension its
\* targets lack (the filtered shapes differ) makes update raise
\* AssertionError with correct and total as they were; and an update that
\* raised has changed no cell.
C16_ShapeMismatchAborts ==
    kind = "Accuracy" =>
        /\ \A b \in AccBatches :
              LET r == AccuracyUpdate(m, b)
                  kept == SelectSeq(b, LAMBDA s : s.target # IgnoreIndex)
              IN (kept # <<>> /\ Shape(kept, SeqDim(b)) # Shape(kept, 0)) =>
                    (r.raised = "AssertionError" /\ r.st = m)
        /\ (op = "update" /\ raised = "AssertionError") =>
              (m.total = Cardinality(Counted) /\ m.correct = Cardinality(Matches))

\* an update stopped by the assert on an Accuracy that holds counts: the last
\* call's samples are seen but not counted
C16_Witness ==
    /\ kind = "Accuracy"
    /\ op = "update"
    /\ raised = "AssertionError"
    /\ m.total > 0
    /\ m.correct > 0
    /\ ~seen[Len(seen)].ok
    /\ seen[Len(seen)].target # IgnoreIndex


\* C19 (as claimed): after updates that all passed types, close_total is the
\* number of type-0 samples and open_total the number of type-1 samples, so
\* that close_total + open_total = total and close_score + open_score = score.
C19_TypePartition ==
    (kind = "VQARADScore" /\ AllTyped) =>
        /\ m.close_total = Cardinality(OfType(0))
        /\ m.open_total = Cardinality(OfType(1))
        /\ m.close_total + m.open_total = m.total
        /\ m.close_score + m.open_score = m.score

\* C20 (as claimed): a VQARADScore.update that raises has changed none of
\* score, total, close_score, close_total, open_score, open_total.
C20_UpdateAllOrNothing ==
    [][(kind = "VQARADScore" /\ op' = "update" /\ raised' # "none") =>
            /\ m'.score = m.score /\ m'.total = m.total
            /\ m'.close_score = m.close_score /\ m'.close_total = m.close_total
            /\ m'.open_score = m.open_score /\ m'.open_total = m.open_total]_vars


\* ---------------------------------------------------------------- epochs of a module
\* pl holds the metrics set_metrics gave the module, one per attribute
\* f"{split}_{k}_{metric}", here <<split, k, metric>>; loss_names is
\* config["loss_names"]; phase is the phase the training loop is in, which
\* epoch_wrapup derives from its test argument and pl_module.training.

Splits == {"train", "val", "test"}
Tasks == {"vqa", "cls"}

\* the metrics set_metrics creates for task k, by attribute suffix
TaskMetrics(k) ==
    IF k = "vqa" THEN {"score", "rouge1", "rouge2", "bleu_score", "loss"}
    ELSE {"accuracy", "loss"}

\* the class set_metrics instantiates for an attribute suffix
KindOf(metric) ==
    CASE metric = "score" -> "VQARADScore"
      [] metric = "rouge1" -> "ROUGE1Score"
      [] metric = "rouge2" -> "ROUGE2Score"
      [] metric = "bleu_score" -> "BLEUScore"
      [] metric = "loss" -> "Scalar"
      [] metric = "accuracy" -> "Accuracy"

set_metrics(cfg) ==
    [a \in {<<split, k, metric>> \in Splits \X Tasks \X
                {"score", "rouge1", "rouge2", "bleu_score", "loss", "accuracy"} :
                cfg[k] > 0 /\ metric \in TaskMetrics(k)} |-> InitState]

\* the phase epoch_wrapup works on
Phase(test, training) ==
    IF test THEN "test" ELSE IF training THEN "train" ELSE "val"

\* one pl_module.log call
Log(key, value) == [key |-> key, value |-> value]

\* mutant: the score metric is reset before the watermark is evaluated
WrapupScoreResetFirst(st, ph) ==
    LET c == VQAScoreCompute(st)
        r == MetricReset("VQARADScore", c.st)
        b == VQARADScoreGetBestScore(r)
        bc == VQARADScoreGetBestCloseScore(b.st)
        bo == VQARADScoreGetBestOpenScore(bc.st)
    IN [st |-> bo.st,
        log |-> <<Log(<<"vqa", ph, "score_epoch">>, c.ret),
                  Log(<<"vqa", ph, "score_best_epoch">>, b.ret),
                  Log(<<"vqa", ph, "close_score_best_epoch">>, bc.ret),
                  Log(<<"vqa", ph, "open_score_best_epoch">>, bo.ret)>>]

\* the score metric's part of epoch_wrapup: compute, the three watermark
\* getters, reset
WrapupScore(st, ph) ==
    LET c == VQAScoreCompute(st)
        b == VQARADScoreGetBestScore(c.st)
        bc == VQARADScoreGetBestCloseScore(b.st)
        bo == VQARADScoreGetBestOpenScore(bc.st)
    IN [st |-> MetricReset("VQARADScore", bo.st),
        log |-> <<Log(<<"vqa", ph, "score_epoch">>, c.ret),
                  Log(<<"vqa", ph, "score_best_epoch">>, b.ret),
                  Log(<<"vqa", ph, "close_score_best_epoch">>, bc.ret),
                  Log(<<"vqa", ph, "open_score_best_epoch">>, bo.ret)>>]

\* compute, log under key, reset
WrapupPlain(kd, st, key) ==
    [st |-> MetricReset(kd, MetricCompute(kd, st).st),
     log |-> <<Log(key, MetricCompute(kd, st).ret)>>]

\* the body of epoch_wrapup's loop for one active loss_name: only "vqa" has
\* a branch
WrapupTask(w, ph, loss_name) ==
    IF loss_name = "vqa"
    THEN LET score == WrapupScore(w.pl[<<ph, "vqa", "score">>], ph)
             loss == WrapupPlain("Scalar", w.pl[<<ph, "vqa", "loss">>],
                                 <<"vqa", ph, "loss_epoch">>)
             rouge1 == WrapupPlain("ROUGE1Score", w.pl[<<ph, "vqa", "rouge1">>],
                                   <<ph, "rouge1">>)
             rouge2 == WrapupPlain("ROUGE2Score", w.pl[<<ph, "vqa", "rouge2">>],
                                   <<ph, "rouge2">>)
             bleu == WrapupPlain("BLEUScore", w.pl[<<ph, "vqa", "bleu_score">>],
                                 <<ph, "bleu_score">>)
         IN [pl |-> [w.pl EXCEPT ![<<ph, "vqa", "score">>] = score.st,
                                 ![<<ph, "vqa", "loss">>] = loss.st,
                                 ![<<ph, "vqa", "rouge1">>] = rouge1.st,
                                 ![<<ph, "vqa", "rouge2">>] = rouge2.st,
                                 ![<<ph, "vqa", "bleu_score">>] = bleu.st],
             log |-> w.log \o score.log \o loss.log \o rouge1.log \o rouge2.log
                        \o bleu.log]
    ELSE w

EpochWrapup(plv, cfg, test, training) ==
    LET ph == Phase(test, training)
        w0 == [pl |-> plv, log |-> <<>>]
        w1 == IF cfg["vqa"] <= 0 THEN w0 ELSE WrapupTask(w0, ph, "vqa")
        w2 == IF cfg["cls"] <= 0 THEN w1 ELSE WrapupTask(w1, ph, "cls")
    IN w2


\* what one training, validation or test step works on: a typed VQA batch
\* and a well-shaped classification batch of one sample
Steps ==
    [rad : {x \in RadBatches : ~x.types.none /\ Len(x.samples) > 0},
     acc : {b \in AccBatches : Len(b) = 1 /\ SeqDim(b) = 0}]

\* the argument a step passes to the metric of task k behind an attribute
\* suffix.  The loss and the text scores follow from the batch: the loss
\* tensor stands at the mass (the samples) the predictions missed, a text
\* pair scores what its sample scores.
StepInput(k, metric, s) ==
    CASE metric = "score" -> s.rad
      [] metric \in {"rouge1", "rouge2", "bleu_score"} ->
            [i \in 1..Len(s.rad.samples) |-> SampleScore(s.rad.samples[i])]
      [] metric = "loss" /\ k = "vqa" ->
            [tensor |-> TRUE,
             v |-> SumSeq([i \in 1..Len(s.rad.samples) |->
                              Unit - SampleScore(s.rad.samples[i])])]
      [] metric = "loss" /\ k = "cls" ->
            [tensor |-> TRUE,
             v |-> SumSeq([i \in 1..Len(s.acc) |->
                              IF ArgMax(s.acc[i].logits) = s.acc[i].target
                              THEN 0 ELSE 1])]
      [] metric = "accuracy" -> s.acc

InitWrapup ==
    /\ kind = "pl_module"
    /\ m = InitState
    /\ op = "set_metrics"
    /\ ret = None
    /\ raised = "none"
    /\ peer = InitState
    /\ pending = <<>>
    /\ workers = <<>>
    /\ NoSeen
    /\ loss_names \in [Tasks -> {0, 1}]
    /\ phase \in Splits
    /\ pl = set_metrics(loss_names)
    /\ logged = <<>>

\* one step of the loop in the current phase: every metric of the phase is
\* updated once
step ==
    \E s \in Steps :
        /\ loss_names["vqa"] > 0 =>
              pl[<<phase, "vqa", "score">>].total + Len(s.rad.samples) <= MaxRadTotal
        /\ loss_names["cls"] > 0 =>
              pl[<<phase, "cls", "loss">>].total + 1 <= MaxClsSteps
        /\ pl' = [a \in DOMAIN pl |->
                    IF a[1] = phase
                    THEN MetricUpdate(KindOf(a[3]), pl[a], StepInput(a[2], a[3], s)).st
                    ELSE pl[a]]
        /\ op' = "step"
        /\ UNCHANGED <<kind, m, ret, raised, peer, pending, workers, seen,
                       loss_names, phase, logged>>

\* the end of an epoch of the current phase
epoch_wrapup ==
    LET w == EpochWrapup(pl, loss_names, phase = "test", phase = "train")
    IN /\ pl' = w.pl
       /\ logged' = w.log
       /\ op' = "epoch_wrapup"
       /\ UNCHANGED <<kind, m, ret, raised, peer, pending, workers, seen,
                      loss_names, phase>>

NextWrapup ==
    \/ step
    \/ epoch_wrapup

SpecWrapup == InitWrapup /\ [][NextWrapup]_vars


\* ---------------------------------------------------------------- epoch properties
\* the metrics of the current phase (set_metrics made them for the active
\* tasks only)
PhaseMetrics == {a \in DOMAIN pl : a[1] = phase}

\* every cell the metric behind attribute a owns is at its default
IsReset(a) == \A f \in Owned(KindOf(a[3])) : pl[a][f] = InitState[f]

\* C17 (as claimed): when epoch_wrapup has run, every metric of the current
\* phase and an active task, "vqa" or "cls", has had its value computed and
\* logged and is reset, so that the next epoch starts from the defaults.
C17_WrapupResetsEveryMetric ==
    op = "epoch_wrapup" =>
        /\ \A a \in PhaseMetrics : IsReset(a)
        /\ Len(logged) >= Cardinality(PhaseMetrics)

\* C18: epoch_wrapup evaluates the watermark of the phase's vqa score on the
\* epoch's unreset cells and resets them afterwards: with s the epoch's
\* score/total, best_score becomes the larger of its old value and s (it
\* stays on a zero total, s being nan), starting from 0, which makes it
\* max(0, s_1, ..., s_k) after the k-th wrapup; the close/open snapshot is
\* taken from the same unreset cells; the four values are logged.
C18_WatermarkBeforeReset ==
    [][(op' = "epoch_wrapup" /\ loss_names["vqa"] > 0) =>
          LET a == <<phase, "vqa", "score">>
              st == pl[a]
              s == Div(st.score, Unit * st.total)
              raise == st.total > 0 /\ Gt(s, st.best_score)
          IN /\ op = "set_metrics" => st.best_score = Zero
             /\ Geq(st.best_score, Zero)
             /\ pl'[a].best_score = IF raise THEN s ELSE st.best_score
             /\ raise => /\ pl'[a].best_close_score = Div(st.close_score, Unit * st.close_total)
                         /\ pl'[a].best_open_score = Div(st.open_score, Unit * st.open_total)
             /\ ~raise => /\ pl'[a].best_close_score = st.best_close_score
                          /\ pl'[a].best_open_score = st.best_open_score
             /\ \A f \in Owned("VQARADScore") : pl'[a][f] = InitState[f]
             /\ logged'[1].value = s
             /\ logged'[2].value = pl'[a].best_score
             /\ logged'[3].value = pl'[a].best_close_score
             /\ logged'[4].value = pl'[a].best_open_score]_vars

\* a wrapup of an epoch that scored 1/2 below a watermark of 1 left by an
\* earlier epoch
C18_Witness ==
    /\ op = "epoch_wrapup"
    /\ loss_names["vqa"] > 0
    /\ pl[<<phase, "vqa", "score">>].best_score = One
    /\ pl[<<phase, "vqa", "score">>].total = 0
    /\ logged[1].value = Num(1, 2)
    /\ logged[2].value = One

====
